---- MODULE Spec2Model ----
(***************************************************************************)
(* Model of the Glassdoor job scraper (src/scraper/main.py).               *)
(*                                                                         *)
(* The scraper is one sequential process.  The browser is the environment: *)
(* every page it serves is an input drawn from a bounded set, and a        *)
(* navigation or a page read may raise.                                    *)
(*                                                                         *)
(* Text is a sequence of tokens: the digits "0".."9", the thousands        *)
(* separator ",", one whitespace token " ", the word "jobs" (any case),    *)
(* the phrase "DA" ("Data Analyst") and "x" (any other character).         *)
(***************************************************************************)
EXTENDS Integers, Sequences, FiniteSets, TLC

VARIABLES
    entry,         \* which entry point runs: run_scraper (main), the single-country harness, or a probe of one page
    pc,            \* position of the process
    countries,     \* the countries this entry processes, in order
    idx,           \* index into countries of the country being processed
    period,        \* index into PeriodNames of the time window being scraped
    country_data,  \* scrape_country's local result dictionary
    all_data,      \* run_scraper's result dictionary
    driver,        \* the browser session: "none", "open" or "quit"
    raised,        \* where the exception that ended the run was raised: "none", "initialize", "scrape_country" or "save_data"
    file,          \* the output file
    navs,          \* ghost: driver.get calls issued for the current country
    failed,        \* ghost: some metric of the current country already ended as a failure
    excSeen,       \* ghost: a navigation or page read of the current country raised
    total_jobs,    \* scrape_remote_vs_onsite's local total_jobs, -1 before it is fetched
    xin,           \* probe: the page handed to one scrape_jobs_by_period call
    xout,          \* probe: what the call computed on it
    text,          \* the text handed to one extract_skills_from_text call
    found_skills,  \* what extract_skills_from_text returned for it
    onlyChallenges,\* ghost: every metric of the current country fetched a page, and it stayed a challenge
    session,       \* ghost: how many browsers were started, and the countries that navigated with the current one
    closes         \* ghost: how many times close() was executed

vars == <<entry, pc, countries, idx, period, country_data, all_data, driver,
          raised, file, navs, failed, excSeen, total_jobs, xin, xout,
          text, found_skills, onlyChallenges, session, closes>>

-----------------------------------------------------------------------------
(* Bounds of the model *)

\* how many of the configured countries a run processes
NumCountries == 2
\* largest job count a page of the country-level specifications shows
MaxCount == 2
\* how many times the page title may change while one metric is scraped
MaxTitleChanges == 1
\* longest text (in tokens) of the probed pages
MaxTextLen == 5
\* most listings one listings page yields (cards on the page, or job links)
MaxListings == 1
\* longest text (in words) handed to extract_skills_from_text
MaxWords == 3

(* Program constants *)

\* for i in range(5): the waits of handle_cloudflare
CloudflareWaitAttempts == 5

\* COUNTRIES, in order
COUNTRIES == <<"Canada", "Ireland", "Portugal", "United Arab Emirates", "Germany">>

\* TIME_PERIODS, in insertion order
PeriodNames == <<"last_24h", "last_7d", "last_30d">>

TIME_PERIODS == [last_24h |-> 1, last_7d |-> 7, last_30d |-> 30]

\* the countries of this model's runs
Configured == SubSeq(COUNTRIES, 1, NumCountries)

\* COUNTRY_CONFIGS.get(country) is truthy
HasConfig(c) == \E i \in 1..Len(Configured) : Configured[i] = c

\* COUNTRY_CONFIGS: avg_count, and remote_ratio in hundredths
COUNTRY_CONFIGS ==
    ("Canada" :> [avg_count |-> 500, remote_ratio |-> 30]) @@
    ("Ireland" :> [avg_count |-> 120, remote_ratio |-> 40]) @@
    ("Portugal" :> [avg_count |-> 90, remote_ratio |-> 50]) @@
    ("United Arab Emirates" :> [avg_count |-> 150, remote_ratio |-> 20]) @@
    ("Germany" :> [avg_count |-> 450, remote_ratio |-> 35])

\* a country name outside COUNTRY_CONFIGS
UnknownCountry == "Atlantis"

-----------------------------------------------------------------------------
(* Text *)

Digits == {"0", "1", "2", "3", "4", "5", "6", "7", "8", "9"}

DigitVal(c) ==
    CASE c = "0" -> 0 [] c = "1" -> 1 [] c = "2" -> 2 [] c = "3" -> 3
      [] c = "4" -> 4 [] c = "5" -> 5 [] c = "6" -> 6 [] c = "7" -> 7
      [] c = "8" -> 8 [] OTHER -> 9

\* the token at position i, "" past the end
Tok(t, i) == IF i \in 1..Len(t) THEN t[i] ELSE ""

IsDigit(c) == c \in Digits

\* first position at or after i that holds no digit: the end of \d* from i
RECURSIVE RunEnd(_, _)
RunEnd(t, i) == IF IsDigit(Tok(t, i)) THEN RunEnd(t, i + 1) ELSE i

\* first position at or after i that holds no whitespace: the end of \s* from i
RECURSIVE SkipWs(_, _)
SkipWs(t, i) == IF Tok(t, i) = " " THEN SkipWs(t, i + 1) ELSE i

\* int(...) of the digits among t[i..j-1], other characters dropped
RECURSIVE ParseInt(_, _, _, _)
ParseInt(t, i, j, acc) ==
    IF i >= j THEN acc
    ELSE IF IsDigit(t[i]) THEN ParseInt(t, i + 1, j, 10 * acc + DigitVal(t[i]))
    ELSE ParseInt(t, i + 1, j, acc)

\* \s+(?:Data Analyst\s+)?jobs matches at position i
JobsAfter(t, i) ==
    LET j == SkipWs(t, i) IN
    /\ j > i
    /\ \/ Tok(t, j) = "jobs"
       \/ /\ Tok(t, j) = "DA"
          /\ LET k == SkipWs(t, j + 1) IN k > j + 1 /\ Tok(t, k) = "jobs"

\* re.search(r'\d+\s+(?:Data Analyst\s+)?jobs', text, re.IGNORECASE)
SelectorPatternMatches(t) ==
    \E i \in 1..Len(t) : IsDigit(t[i]) /\ JobsAfter(t, i + 1)

\* positions holding a digit
DigitPositions(t) == {i \in 1..Len(t) : IsDigit(t[i])}

Min(S) == CHOOSE m \in S : \A n \in S : m <= n

\* int(re.search(r'\d+', text).group()): the first run of digits of the text
FirstDigitRun(t) ==
    LET i == Min(DigitPositions(t)) IN ParseInt(t, i, RunEnd(t, i), 0)

\* end of the group (\d+,?\d*) of a match of pattern 1 that starts at i, 0 if none
GroupEndAt(t, i) ==
    IF ~IsDigit(Tok(t, i)) THEN 0
    ELSE LET a == RunEnd(t, i) IN
         IF Tok(t, a) = ","
         THEN LET b == RunEnd(t, a + 1) IN IF JobsAfter(t, b) THEN b ELSE 0
         ELSE IF JobsAfter(t, a) THEN a ELSE 0

\* start positions of the matches of r'(\d+,?\d*)\s+(?:Data Analyst\s+)?jobs'
PatternStarts(t) == {i \in 1..Len(t) : GroupEndAt(t, i) > 0}

\* the number matched by job_count_patterns[0] at its leftmost match, separators
\* stripped: int(matches.group(1).replace(',', ''))
FirstPatternCount(t) ==
    LET i == Min(PatternStarts(t)) IN ParseInt(t, i, GroupEndAt(t, i), 0)

\* the decimal digits of n
RECURSIVE DigitsOf(_)
DigitsOf(n) ==
    IF n < 10 THEN <<CHOOSE c \in Digits : DigitVal(c) = n>>
    ELSE Append(DigitsOf(n \div 10), CHOOSE c \in Digits : DigitVal(c) = n % 10)

\* the text "<n> jobs"
CountText(n) == DigitsOf(n) \o <<" ", "jobs">>

-----------------------------------------------------------------------------
(* Pages                                                                   *)
(*                                                                         *)
(* A page is what the browser serves after one driver.get:                 *)
(*   jam[k]  "Just a moment" is in driver.title at the k-th title read     *)
(*   cf      "cloudflare" is in driver.page_source.lower()                 *)
(*   chal    "challenge" is in driver.current_url                          *)
(*   exc     the page read that raises: "none", "cloudflare" (a read of    *)
(*           handle_cloudflare), "extract" (the title read of              *)
(*           extract_job_count) or "recheck" (the title read of the        *)
(*           caller's re-check)                                            *)
(*   sel     the texts of the displayed elements the count selectors find, *)
(*           in probe order                                                *)
(*   title   the title when it is not the interstitial's                   *)
(*   body    driver.page_source, apart from the title and the elements     *)
(*           of sel                                                        *)
(***************************************************************************)

\* the title reads of one metric, in order: the detection of handle_cloudflare,
\* its waits, its final check, the title strategy, the caller's re-check
ReadDetect == 1
ReadWait(i) == 1 + i
ReadFinal == CloudflareWaitAttempts + 2
ReadExtract == CloudflareWaitAttempts + 3
ReadRecheck == CloudflareWaitAttempts + 4
NumTitleReads == CloudflareWaitAttempts + 4

\* driver.title at the k-th read
TitleAt(page, k) == IF page.jam[k] THEN <<"JaM">> ELSE page.title

\* how often a title timeline changes
Changes(j) == Cardinality({k \in 1..(NumTitleReads - 1) : j[k] # j[k + 1]})

Timelines == {j \in [1..NumTitleReads -> BOOLEAN] : Changes(j) <= MaxTitleChanges}

AlwaysClear == [k \in 1..NumTitleReads |-> FALSE]
AlwaysJam == [k \in 1..NumTitleReads |-> TRUE]

ReadExcs == {"none", "cloudflare", "extract", "recheck"}

\* mutant: the final check after the waits is missing
handle_cloudflare_no_final_check(page) ==
    IF page.exc = "cloudflare" THEN FALSE ELSE TRUE

\* handle_cloudflare: TRUE if no challenge was detected or it cleared
handle_cloudflare(page) ==
    IF page.exc = "cloudflare" THEN FALSE
    ELSE IF page.jam[ReadDetect] \/ page.cf
         THEN IF \E i \in 1..CloudflareWaitAttempts : ~page.jam[ReadWait(i)]
              THEN TRUE
              ELSE ~page.jam[ReadFinal]
         ELSE TRUE

\* the displayed selector texts that match the count pattern
SelectorHits(page) == {i \in 1..Len(page.sel) : SelectorPatternMatches(page.sel[i])}

\* strategy 1: the first displayed element whose text matches gives the first
\* run of digits of its text
SelectorCount(page) == FirstDigitRun(page.sel[Min(SelectorHits(page))])

\* strategy 2 applies: "jobs" is in the title and it holds a number
TitleHit(page) ==
    LET t == TitleAt(page, ReadExtract) IN
    (\E i \in 1..Len(t) : t[i] = "jobs") /\ DigitPositions(t) # {}

TitleCount(page) == FirstDigitRun(TitleAt(page, ReadExtract))

\* strategy 3 applies: patterns 2 to 4 each contain a match of pattern 1, which
\* is tried first, so pattern 1 decides
BodyHit(page) == PatternStarts(page.body) # {}

BodyCount(page) == FirstPatternCount(page.body)

\* mutant: the page text is scanned before the selectors and the title
extract_job_count_text_first(page) ==
    IF ~handle_cloudflare(page) THEN 0
    ELSE IF BodyHit(page) THEN BodyCount(page)
    ELSE IF SelectorHits(page) # {} THEN SelectorCount(page)
    ELSE IF page.exc = "extract" THEN 0
    ELSE IF TitleHit(page) THEN TitleCount(page)
    ELSE 0

\* extract_job_count
extract_job_count(page) ==
    IF ~handle_cloudflare(page) THEN 0
    ELSE IF SelectorHits(page) # {} THEN SelectorCount(page)
    ELSE IF page.exc = "extract" THEN 0
    ELSE IF TitleHit(page) THEN TitleCount(page)
    ELSE IF BodyHit(page) THEN BodyCount(page)
    ELSE 0

\* the caller's re-check: "Just a moment" in the title or "challenge" in the URL
ChallengeRecheck(page) == page.jam[ReadRecheck] \/ page.chal

\* the outcome of a block of code: it returns a value or raises
Return(v) == [raises |-> FALSE, value |-> v]
Raise == [raises |-> TRUE, value |-> -1]

\* mutant: the handler is missing and the exception leaves the operation
Except_reraise(outcome, v) == outcome

\* try: <block> except Exception: return v
Except(outcome, v) == IF outcome.raises THEN Return(v) ELSE outcome

\* mutant: the re-check is made whatever the count, not only for a count of 0
PeriodTry_recheck_any_count(env) ==
    IF env.nav = "raises" THEN Raise
    ELSE LET job_count == extract_job_count(env.page) IN
         IF env.page.exc = "recheck" THEN Raise
         ELSE IF ChallengeRecheck(env.page) THEN Return(-1)
         ELSE Return(job_count)

\* mutant: the re-check is missing, a challenge page gives the count 0
PeriodTry_no_recheck(env) ==
    IF env.nav = "raises" THEN Raise ELSE Return(extract_job_count(env.page))

\* the try block of scrape_jobs_by_period on the fetch env (env.nav tells
\* whether driver.get raises, env.page is the page it loads)
PeriodTry(env) ==
    IF env.nav = "raises" THEN Raise
    ELSE LET job_count == extract_job_count(env.page) IN
         IF job_count = 0
         THEN IF env.page.exc = "recheck" THEN Raise
              ELSE IF ChallengeRecheck(env.page) THEN Return(-1)
              ELSE Return(job_count)
         ELSE Return(job_count)

\* mutant: a missing configuration gives a zero count
scrape_jobs_by_period_zero(c, env) ==
    IF ~HasConfig(c) THEN Return(0) ELSE Except(PeriodTry(env), -1)

\* scrape_jobs_by_period(country, period_days) on the fetch env
scrape_jobs_by_period(c, env) ==
    IF ~HasConfig(c) THEN Return(-1) ELSE Except(PeriodTry(env), -1)

\* the cards and job links one listings page yields
\* for card in job_cards[:20]
CardLimit == 20
\* for i, url in enumerate(job_urls[:10])
UrlLimit == 10

\* a listing built from a job card of the page
CardListing == [title |-> "card title", company |-> "card company", skills |-> <<>>, link |-> ""]

\* a listing built from a job page visited by its URL
UrlListing == [title |-> "page title", company |-> "page company", skills |-> <<>>, link |-> "url"]

\* extract_skills_from_page: one listing per job card, at most CardLimit
extract_skills_from_page(env) ==
    [i \in 1..(IF env.cards < CardLimit THEN env.cards ELSE CardLimit) |-> CardListing]

\* the job URLs visited: at most UrlLimit
VisitedUrls(env) ==
    SubSeq(env.links, 1, IF Len(env.links) < UrlLimit THEN Len(env.links) ELSE UrlLimit)

\* extract_skills_using_direct_urls: one listing per visited URL whose page
\* loaded; env.links[i] tells whether driver.get of the i-th URL succeeded
extract_skills_using_direct_urls(env) ==
    LET loaded == SelectSeq(VisitedUrls(env), LAMBDA ok : ok) IN
    [i \in 1..Len(loaded) |-> UrlListing]

\* the try block of scrape_job_listings
ListingsTry(env) ==
    IF env.nav = "raises" THEN Raise
    ELSE IF ~handle_cloudflare(env.page) THEN Return(<<>>)
    ELSE IF Len(extract_skills_from_page(env)) > 0 THEN Return(extract_skills_from_page(env))
    ELSE Return(extract_skills_using_direct_urls(env))

\* scrape_job_listings(country, days=1) on the fetch env
scrape_job_listings(c, env) ==
    IF ~HasConfig(c) THEN Return(<<>>) ELSE Except(ListingsTry(env), <<>>)

\* mutant: a fallback flag set by a failed country is never reset, and the
\* countries after it answer their metrics without fetching
CountNavs_sticky_fallback(c) ==
    IF /\ HasConfig(c)
       /\ \A k \in DOMAIN all_data.countries : all_data.countries[k].last_24h # -1
    THEN 1 ELSE 0

\* mutant: a country in fallback mode answers its metrics without fetching
CountNavs_fallback(c) == IF HasConfig(c) /\ ~failed THEN 1 ELSE 0

\* driver.get calls of one count fetch: none without a configuration
CountNavs(c) == IF HasConfig(c) THEN 1 ELSE 0

\* driver.get calls of scrape_job_listings: the listings page, then every
\* visited job URL when the page was readable and gave no listing
ListingsNavs(c, env) ==
    IF ~HasConfig(c) THEN 0
    ELSE IF env.nav = "raises" \/ ~handle_cloudflare(env.page) THEN 1
    ELSE IF Len(extract_skills_from_page(env)) > 0 THEN 1
    ELSE 1 + Len(VisitedUrls(env))

\* mutant: on_site is the plain difference, with no failure check and no clamp
OnSite_plain_difference(total, remote_count) == total - remote_count

\* mutant: on_site is not clamped at 0
OnSite_unclamped(total, remote_count) ==
    IF total < 0 THEN -1 ELSE total - remote_count

\* mutant: the check "if total_jobs < 0" is missing
OnSite_no_failure_check(total, remote_count) ==
    IF total - remote_count > 0 THEN total - remote_count ELSE 0

\* on_site of scrape_remote_vs_onsite, from the remote count and the total
OnSite(total, remote_count) ==
    IF total < 0 THEN -1
    ELSE IF total - remote_count > 0 THEN total - remote_count ELSE 0

-----------------------------------------------------------------------------
(* Skills                                                                  *)
(*                                                                         *)
(* The text handed to extract_skills_from_text is a sequence of words,     *)
(* each made of letters only and separated by one blank; a skill and a     *)
(* regex match are sequences of words too.                                 *)
(***************************************************************************)

\* the words of the texts: the terms of the vocabularies below in two
\* casings, and the words of the phrase "Degree in <field>"
SkillWords == {"SQL", "Statistics", "statistics", "BSc", "bsc", "Degree", "in"}

SkillTexts == UNION {[1..n -> SkillWords] : n \in 0..MaxWords}

\* str.lower() of a word, for re.IGNORECASE
Lower(w) ==
    CASE w = "SQL" -> "sql" [] w = "Python" -> "python"
      [] w = "Statistics" -> "statistics" [] w = "PhD" -> "phd"
      [] w = "BSc" -> "bsc" [] w = "Degree" -> "degree"
      [] w = "Communication" -> "communication" [] OTHER -> w

LowerAll(t) == [i \in 1..Len(t) |-> Lower(t[i])]

\* technical_skills, education_requirements and soft_skills: of each list the
\* terms that the words of SkillWords can spell, and one that they cannot, in
\* the order of the source
technical_skills == << <<"SQL">>, <<"Python">>, <<"Statistics">> >>

education_requirements == << <<"PhD">>, <<"BSc">>, <<"Statistics">>, <<"Degree">> >>

soft_skills == << <<"Communication">> >>

\* all_skills = technical_skills + education_requirements + soft_skills
all_skills == technical_skills \o education_requirements \o soft_skills

\* re.search(r'\b' + re.escape(skill) + r'\b', text, re.IGNORECASE)
SkillOccurs(skill, t) ==
    \E i \in 1..(Len(t) - Len(skill) + 1) :
        LowerAll(SubSeq(t, i, i + Len(skill) - 1)) = LowerAll(skill)

\* the loop over all_skills: every term found is appended, in its own casing
VocabularyFound(t) == SelectSeq(all_skills, LAMBDA skill : SkillOccurs(skill, t))

\* group(0) of the leftmost match of a one-word pattern such as
\* r"\b[Bb][Ss][Cc]\b", <<>> when it does not match
WordMatch(t, lw) ==
    LET S == {i \in 1..Len(t) : Lower(t[i]) = lw} IN
    IF S = {} THEN <<>> ELSE <<t[Min(S)]>>

\* group(0) of the leftmost match of r"\b[Dd]egree\s+in\s+[A-Za-z\s]+\b": the
\* words run on to the end of the text, <<>> when it does not match
DegreeInMatch(t) ==
    LET S == {i \in 1..(Len(t) - 2) : t[i] \in {"Degree", "degree"} /\ t[i + 1] = "in"} IN
    IF S = {} THEN <<>> ELSE SubSeq(t, Min(S), Len(t))

\* the matches of degree_patterns, in order: of the seven patterns the ones
\* that the words of SkillWords can match
DegreeMatches(t) == <<WordMatch(t, "bsc"), WordMatch(t, "phd"), DegreeInMatch(t)>>

\* if match and match.group(0) not in found_skills: found_skills.append(...)
RECURSIVE AppendNovel(_, _, _)
AppendNovel(found, matches, k) ==
    IF k > Len(matches) THEN found
    ELSE IF matches[k] = <<>> \/ (\E i \in 1..Len(found) : found[i] = matches[k])
         THEN AppendNovel(found, matches, k + 1)
         ELSE AppendNovel(Append(found, matches[k]), matches, k + 1)

\* extract_skills_from_text(text)
extract_skills_from_text(t) == AppendNovel(VocabularyFound(t), DegreeMatches(t), 1)

-----------------------------------------------------------------------------
(* The pages each entry point is served *)

NoPage == [jam |-> AlwaysClear, cf |-> FALSE, chal |-> FALSE, exc |-> "none",
           sel |-> <<>>, title |-> <<>>, body |-> <<>>]

\* a clear page whose count badge shows n jobs
BadgePage(n) == [NoPage EXCEPT !.sel = <<CountText(n)>>]

\* a page that stays on the interstitial
ChallengePage == [NoPage EXCEPT !.jam = AlwaysJam]

NavRaises == [nav |-> "raises", page |-> NoPage]

Loaded(page) == [nav |-> "ok", page |-> page]

\* the whole run: the navigation raises, the page stays a challenge, or it is
\* clear and shows one job
RunFetches == {NavRaises, Loaded(ChallengePage), Loaded(BadgePage(1))}

\* one country: any title timeline, any raising read, no count or a badge
CountryPages ==
    {[NoPage EXCEPT !.jam = j, !.exc = e, !.sel = s] :
        j \in Timelines, e \in ReadExcs,
        s \in {<<>>} \cup {<<CountText(n)>> : n \in 0..MaxCount}}

CountryFetches == {NavRaises} \cup {Loaded(p) : p \in CountryPages}

\* the listings page: the link flags are the job URLs found on it
LinkFlags == UNION {[1..n -> BOOLEAN] : n \in 0..MaxListings}

\* one country: any title timeline, a raising read of handle_cloudflare, any
\* cards and links
CountryListingFetches ==
    {[nav |-> "raises", page |-> NoPage, cards |-> 0, links |-> <<>>]} \cup
    {[nav |-> "ok", page |-> [NoPage EXCEPT !.jam = j, !.exc = x], cards |-> c, links |-> l] :
        j \in Timelines, x \in {"none", "cloudflare"}, c \in 0..MaxListings, l \in LinkFlags}

\* the whole run: the navigation raises, the page stays a challenge, or it is
\* clear and shows one job card
RunListingFetches ==
    {[nav |-> "raises", page |-> NoPage, cards |-> 0, links |-> <<>>],
     [nav |-> "ok", page |-> ChallengePage, cards |-> 0, links |-> <<>>],
     [nav |-> "ok", page |-> NoPage, cards |-> 1, links |-> <<>>]}

-----------------------------------------------------------------------------
(* State *)

\* scrape_country's initial country_data: every count is the "can't find
\* data" indicator
InitCountryData(c) ==
    [country |-> c, last_24h |-> -1, last_7d |-> -1, last_30d |-> -1,
     remote |-> -1, on_site |-> -1, job_listings |-> <<>>]

NoCountry == [c \in {} |-> InitCountryData("")]

EmptyDoc == [countries |-> NoCountry, last_updated |-> "unset"]

\* the output file before the run: the previous run's document
PreviousFile == [status |-> "previous", data |-> EmptyDoc]

NoProbe == [hc |-> FALSE, count |-> -1, value |-> -1]

\* self.driver = None
NoSession == [id |-> 0, users |-> {}]

\* self.driver = uc.Chrome(options=options): a new browser, used by nobody yet
OpenSession(s) == [id |-> s.id + 1, users |-> {}]

\* self.driver.get(url) while country c is scraped, n times
UseSession(s, c, n) == IF n > 0 THEN [s EXCEPT !.users = @ \cup {c}] ELSE s

\* mutant: every country is scraped with a browser of its own
CountrySession_fresh(s) == [id |-> s.id + 1, users |-> {}]

\* the browser the next scraper.scrape_country(country) call of run_scraper's
\* loop works with: the one of the scraper object made before the loop
CountrySession(s) == s
country == countries[idx]

\* the probe spends no text longer than MaxTextLen on one slot of a page
TextAlphabet == {"1", "2", ",", " ", "jobs"}

\* the text "1,234 jobs"
ThousandsSample == <<"1", ",", "2", "3", "4", " ", "jobs">>

ProbeTexts == UNION {[1..n -> TextAlphabet] : n \in 0..MaxTextLen} \cup {ThousandsSample}

\* pages with any flags, and no count or "<n> jobs" in one of the three places
FlagPages ==
    {[NoPage EXCEPT !.jam = j, !.cf = c, !.chal = u, !.exc = e] :
        j \in Timelines, c \in BOOLEAN, u \in BOOLEAN, e \in ReadExcs}
    \cup
    {[NoPage EXCEPT !.jam = j, !.cf = c, !.chal = u, !.exc = e, ![slot] = t] :
        j \in Timelines, c \in BOOLEAN, u \in BOOLEAN, e \in ReadExcs,
        slot \in {"title", "body"}, t \in {CountText(n) : n \in 0..MaxCount}}
    \cup
    {[NoPage EXCEPT !.jam = j, !.cf = c, !.chal = u, !.exc = e, !.sel = <<t>>] :
        j \in Timelines, c \in BOOLEAN, u \in BOOLEAN, e \in ReadExcs,
        t \in {CountText(n) : n \in 0..MaxCount}}

\* the three places a count is read from
TextSlots == {"sel", "title", "body"}

\* the clear page with the text t in one of the three places
TextPage(slot, t) ==
    IF slot = "sel" THEN [NoPage EXCEPT !.sel = <<t>>] ELSE [NoPage EXCEPT ![slot] = t]

\* the text of a place that shows the count n, of one that shows none (n = -1)
PlaceText(n) == IF n < 0 THEN <<>> ELSE CountText(n)

\* a clear page whose count badge shows s, whose title shows t and whose
\* source shows b
OrderPage(s, t, b) ==
    [NoPage EXCEPT !.sel = IF s < 0 THEN <<>> ELSE <<CountText(s)>>,
                   !.title = PlaceText(t), !.body = PlaceText(b)]

\* clear pages with any count, or none, in each of the three places
OrderPages == {OrderPage(s, t, b) : s, t, b \in -1..MaxCount}

\* the fetches of the probe other than those of the clear pages with one text
ProbeFetches == {NavRaises} \cup {Loaded(p) : p \in FlagPages \cup OrderPages}

InitCommon ==
    /\ idx = 1
    /\ period = 1
    /\ country_data = InitCountryData(countries[1])
    /\ all_data = EmptyDoc
    /\ driver = "none"
    /\ raised = "none"
    /\ file = PreviousFile
    /\ navs = 0
    /\ failed = FALSE
    /\ excSeen = FALSE
    /\ total_jobs = -1
    /\ xout = NoProbe
    /\ found_skills = <<>>
    /\ onlyChallenges = TRUE
    /\ session = NoSession
    /\ closes = 0

\* main(): run_scraper over COUNTRIES
Init ==
    /\ entry = "run_scraper"
    /\ pc = "initialize"
    /\ countries = Configured
    /\ xin = Loaded(NoPage)
    /\ text = <<>>
    /\ InitCommon

\* test_single_country(country_name): any country name
InitCountry ==
    /\ entry = "test_single_country"
    /\ pc = "initialize"
    /\ \E c \in {Configured[i] : i \in 1..Len(Configured)} \cup {UnknownCountry} :
          countries = <<c>>
    /\ xin = Loaded(NoPage)
    /\ text = <<>>
    /\ InitCommon

\* one scrape_jobs_by_period call on one page
InitProbe ==
    /\ entry = "probe"
    /\ pc = "probe"
    /\ countries = <<Configured[1]>>
    /\ \/ xin \in ProbeFetches
       \/ \E slot \in TextSlots, t \in ProbeTexts : xin = Loaded(TextPage(slot, t))
    /\ text = <<>>
    /\ InitCommon

\* one extract_skills_from_text call on one text
InitSkills ==
    /\ entry = "extract_skills"
    /\ pc = "skills"
    /\ countries = <<Configured[1]>>
    /\ xin = Loaded(NoPage)
    /\ text \in SkillTexts
    /\ InitCommon

-----------------------------------------------------------------------------
(* Ghost classification of one fetch, for the properties *)

\* some strategy of extract_job_count produced the count
CountFound(page) ==
    /\ handle_cloudflare(page)
    /\ \/ SelectorHits(page) # {}
       \/ page.exc # "extract" /\ (TitleHit(page) \/ BodyHit(page))

\* the count fetch ended as Challenged, NotFound or an error
FetchFailed(c, env) ==
    \/ ~HasConfig(c)
    \/ env.nav = "raises"
    \/ ~CountFound(env.page)
    \/ scrape_jobs_by_period(c, env).value = -1

\* the navigation or a page read of the count fetch raised
FetchRaised(c, env) ==
    /\ HasConfig(c)
    /\ \/ env.nav = "raises"
       \/ env.page.exc = "cloudflare"
       \/ env.page.exc = "extract" /\ handle_cloudflare(env.page) /\ SelectorHits(env.page) = {}
       \/ env.page.exc = "recheck" /\ extract_job_count(env.page) = 0

\* the fetch loaded a page whose title stays the interstitial's
ChallengeFetched(c, env) ==
    HasConfig(c) /\ env.nav = "ok" /\ env.page.jam = AlwaysJam

\* the listings fetch ended without reading the page
ListingsFailed(c, env) ==
    ~HasConfig(c) \/ env.nav = "raises" \/ ~handle_cloudflare(env.page)

\* the navigation or a page read of the listings fetch raised
ListingsRaised(c, env) ==
    /\ HasConfig(c)
    /\ \/ env.nav = "raises"
       \/ env.page.exc = "cloudflare"
       \/ /\ handle_cloudflare(env.page)
          /\ Len(extract_skills_from_page(env)) = 0
          /\ \E i \in 1..Len(VisitedUrls(env)) : ~VisitedUrls(env)[i]


-----------------------------------------------------------------------------
(* Operations *)

\* how initialize ends: it returns, uc.Chrome raises and leaves self.driver
\* None, or a call after uc.Chrome raises with the browser already started
InitializeEnds == {"returns", "chrome_raises", "setup_raises"}

\* scraper.initialize()
Initialize ==
    /\ pc = "initialize"
    /\ \E end \in InitializeEnds :
          /\ driver' = IF end = "chrome_raises" THEN driver ELSE "open"
          /\ session' = IF end = "chrome_raises" THEN session ELSE OpenSession(session)
          /\ pc' = IF end = "returns" THEN "period" ELSE "close"
          /\ raised' = IF end = "returns" THEN raised ELSE "initialize"
    /\ UNCHANGED <<entry, countries, idx, period, country_data, all_data, file,
                   navs, failed, excSeen, total_jobs, xin, xout, text, found_skills,
                   onlyChallenges, closes>>

\* an exception leaves scrape_country: the caller's finally block is next
Propagate ==
    /\ pc' = "close"
    /\ raised' = "scrape_country"
    /\ UNCHANGED <<country_data, period, total_jobs>>

\* what one count fetch comes to: the operation's outcome and the ghost flags
CountOutcome(c, env) ==
    [result |-> scrape_jobs_by_period(c, env),
     failed |-> FetchFailed(c, env),
     raised |-> FetchRaised(c, env),
     challenge |-> ChallengeFetched(c, env)]

\* the try block of scrape_remote_vs_onsite up to its nested call: the remote
\* count, -1 when the page is a challenge
RemoteTry(env) == PeriodTry(env)

\* scrape_remote_vs_onsite up to its nested call
RemoteCount(c, env) ==
    IF ~HasConfig(c) THEN Return(-1) ELSE Except(RemoteTry(env), -1)

RemoteOutcome(c, env) ==
    [result |-> RemoteCount(c, env),
     failed |-> FetchFailed(c, env),
     raised |-> FetchRaised(c, env),
     challenge |-> ChallengeFetched(c, env)]

ListingsOutcome(c, env) ==
    [result |-> scrape_job_listings(c, env),
     navs |-> ListingsNavs(c, env),
     failed |-> ListingsFailed(c, env),
     raised |-> ListingsRaised(c, env),
     challenge |-> ChallengeFetched(c, env)]

\* The outcomes of the fetches an entry point can be served, computed once:
\* the operations depend on the country only through HasConfig.
RunCountOutcomes == {CountOutcome(Configured[1], env) : env \in RunFetches}
CountryCountOutcomes == {CountOutcome(Configured[1], env) : env \in CountryFetches}
UnknownCountOutcomes == {CountOutcome(UnknownCountry, env) : env \in CountryFetches}

RunRemoteOutcomes == {RemoteOutcome(Configured[1], env) : env \in RunFetches}
CountryRemoteOutcomes == {RemoteOutcome(Configured[1], env) : env \in CountryFetches}
UnknownRemoteOutcomes == {RemoteOutcome(UnknownCountry, env) : env \in CountryFetches}

RunListingsOutcomes == {ListingsOutcome(Configured[1], env) : env \in RunListingFetches}
CountryListingsOutcomes == {ListingsOutcome(Configured[1], env) : env \in CountryListingFetches}
UnknownListingsOutcomes == {ListingsOutcome(UnknownCountry, env) : env \in CountryListingFetches}

CountOutcomes ==
    IF ~HasConfig(country) THEN UnknownCountOutcomes
    ELSE IF entry = "run_scraper" THEN RunCountOutcomes ELSE CountryCountOutcomes

RemoteOutcomes ==
    IF ~HasConfig(country) THEN UnknownRemoteOutcomes
    ELSE IF entry = "run_scraper" THEN RunRemoteOutcomes ELSE CountryRemoteOutcomes

ListingsOutcomes ==
    IF ~HasConfig(country) THEN UnknownListingsOutcomes
    ELSE IF entry = "run_scraper" THEN RunListingsOutcomes ELSE CountryListingsOutcomes

\* one pass of "for period_name, days in TIME_PERIODS.items()" in scrape_country
ScrapePeriod ==
    /\ pc = "period"
    /\ \E o \in CountOutcomes :
          /\ failed' = (failed \/ o.failed)
          /\ onlyChallenges' = (onlyChallenges /\ o.challenge)
          /\ excSeen' = (excSeen \/ o.raised)
          /\ IF o.result.raises THEN Propagate
             ELSE /\ country_data' = [country_data EXCEPT
                                         ![PeriodNames[period]] = o.result.value]
                  /\ IF period < Len(PeriodNames)
                     THEN period' = period + 1 /\ pc' = pc
                     ELSE period' = period /\ pc' = "remote"
                  /\ UNCHANGED <<raised, total_jobs>>
    /\ navs' = navs + CountNavs(country)
    /\ session' = UseSession(session, country, CountNavs(country))
    /\ UNCHANGED <<entry, countries, idx, all_data, driver, file, xin, xout, text,
                   found_skills, closes>>

\* mutant: an unavailable remote count does not end the operation, the total
\* is fetched and on_site computed all the same
AfterRemote_always_total(remote_count) == "total"

\* where scrape_remote_vs_onsite goes on after the remote page: it returns
\* {"remote": -1, "on_site": -1} at once, or fetches the total
AfterRemote(remote_count) == IF remote_count = -1 THEN "listings" ELSE "total"

\* scrape_remote_vs_onsite up to its nested call: the remote page
ScrapeRemote ==
    /\ pc = "remote"
    /\ \E o \in RemoteOutcomes :
          /\ failed' = (failed \/ o.failed)
          /\ onlyChallenges' = (onlyChallenges /\ o.challenge)
          /\ excSeen' = (excSeen \/ o.raised)
          /\ IF o.result.raises THEN Propagate
             ELSE /\ country_data' = [country_data EXCEPT
                                         !.remote = o.result.value, !.on_site = -1]
                  /\ pc' = AfterRemote(o.result.value)
                  /\ UNCHANGED <<raised, period, total_jobs>>
    /\ navs' = navs + CountNavs(country)
    /\ session' = UseSession(session, country, CountNavs(country))
    /\ UNCHANGED <<entry, countries, idx, all_data, driver, file, xin, xout, text,
                   found_skills, closes>>

\* the rest of scrape_remote_vs_onsite, inside its try block: total is the
\* outcome of total_jobs = scrape_jobs_by_period(country, 30), then on_site
RemoteRest(total, remote_count) ==
    Except(IF total.raises THEN Raise
           ELSE Return([total |-> total.value, remote |-> remote_count,
                        on_site |-> OnSite(total.value, remote_count)]),
           [total |-> -1, remote |-> -1, on_site |-> -1])

\* the nested scrape_jobs_by_period(country, 30) and the end of
\* scrape_remote_vs_onsite
ScrapeTotal ==
    /\ pc = "total"
    /\ \E o \in CountOutcomes :
          LET results == RemoteRest(o.result, country_data.remote) IN
          /\ failed' = (failed \/ o.failed)
          /\ onlyChallenges' = (onlyChallenges /\ o.challenge)
          /\ excSeen' = (excSeen \/ o.raised)
          /\ IF results.raises THEN Propagate
             ELSE /\ country_data' = [country_data EXCEPT
                                         !.remote = results.value.remote,
                                         !.on_site = results.value.on_site]
                  /\ total_jobs' = results.value.total
                  /\ pc' = "listings"
                  /\ UNCHANGED <<raised, period>>
    /\ navs' = navs + CountNavs(country)
    /\ session' = UseSession(session, country, CountNavs(country))
    /\ UNCHANGED <<entry, countries, idx, all_data, driver, file, xin, xout, text,
                   found_skills, closes>>

\* scrape_job_listings(country, days=1), and scrape_country returns
ScrapeListings ==
    /\ pc = "listings"
    /\ \E o \in ListingsOutcomes :
          /\ navs' = navs + o.navs
          /\ session' = UseSession(session, country, o.navs)
          /\ failed' = (failed \/ o.failed)
          /\ onlyChallenges' = (onlyChallenges /\ o.challenge)
          /\ excSeen' = (excSeen \/ o.raised)
          /\ IF o.result.raises THEN Propagate
             ELSE /\ country_data' = [country_data EXCEPT !.job_listings = o.result.value]
                  /\ pc' = "returned"
                  /\ UNCHANGED <<raised, period, total_jobs>>
    /\ UNCHANGED <<entry, countries, idx, all_data, driver, file, xin, xout, text,
                   found_skills, closes>>

\* mutant: the mapping is replaced instead of extended
AddCountry_overwrite(mapping, c, data) == (c :> data)

\* all_data["countries"][country] = country_data
AddCountry(mapping, c, data) == (c :> data) @@ mapping

\* the caller stores the returned country_data; run_scraper goes on with the
\* next country or stamps and returns the document, the harness builds its
\* document
StoreCountry ==
    /\ pc = "returned"
    /\ IF entry = "run_scraper"
       THEN IF idx < Len(countries)
            THEN /\ all_data' = [all_data EXCEPT
                                    !.countries = AddCountry(@, country, country_data)]
                 /\ idx' = idx + 1
                 /\ period' = 1
                 /\ country_data' = InitCountryData(countries[idx + 1])
                 /\ navs' = 0
                 /\ failed' = FALSE
                 /\ excSeen' = FALSE
                 /\ total_jobs' = -1
                 /\ onlyChallenges' = TRUE
                 /\ session' = CountrySession(session)
                 /\ pc' = "period"
            ELSE /\ all_data' = [countries |-> AddCountry(all_data.countries, country, country_data),
                                 last_updated |-> "stamped"]
                 /\ pc' = "close"
                 /\ UNCHANGED <<idx, period, country_data, navs, failed, excSeen, total_jobs,
                                onlyChallenges, session>>
       ELSE /\ all_data' = [countries |-> (country :> country_data),
                            last_updated |-> "unset"]
            /\ pc' = "save_open"
            /\ UNCHANGED <<idx, period, country_data, navs, failed, excSeen, total_jobs,
                           onlyChallenges, session>>
    /\ UNCHANGED <<entry, countries, driver, raised, file, xin, xout, text, found_skills,
                   closes>>

\* mutant: main does not save what run_scraper returned
AfterClose_skip_save == "done"

\* where the entry point goes on after the finally block: main saves what
\* run_scraper returned, and logs what it raised; the harness is done
AfterClose == IF entry = "run_scraper" /\ raised = "none" THEN "save_open" ELSE "done"

\* scraper.close() in the finally block
Close ==
    /\ pc = "close"
    /\ driver' = IF driver = "open" THEN "quit" ELSE driver
    /\ pc' = AfterClose
    /\ closes' = closes + 1
    /\ UNCHANGED <<entry, countries, idx, period, country_data, all_data, raised,
                   file, navs, failed, excSeen, total_jobs, xin, xout, text, found_skills,
                   onlyChallenges, session>>

\* mutant: the harness has no finally block that stops the scraper
AfterSave_no_finally == "done"

\* where the entry point goes on after save_data: main is done, the harness
\* reaches its finally block
AfterSave == IF entry = "run_scraper" THEN "done" ELSE "close"

\* save_data up to open(output_path, 'w'): the file is truncated, or makedirs
\* or open raises
SaveOpen ==
    /\ pc = "save_open"
    /\ \E ok \in BOOLEAN :
          IF ok
          THEN /\ file' = [status |-> "truncated", data |-> EmptyDoc]
               /\ pc' = "save_dump"
               /\ raised' = raised
          ELSE /\ file' = file
               /\ pc' = AfterSave
               /\ raised' = "save_data"
    /\ UNCHANGED <<entry, countries, idx, period, country_data, all_data, driver,
                   navs, failed, excSeen, total_jobs, xin, xout, text, found_skills, onlyChallenges, session, closes>>

\* json.dump(data, f, indent=2): the document is written, or the write raises
\* part-way
SaveDump ==
    /\ pc = "save_dump"
    /\ \E ok \in BOOLEAN :
          IF ok
          THEN /\ file' = [status |-> "complete", data |-> all_data]
               /\ raised' = raised
          ELSE /\ file' = [status |-> "partial", data |-> EmptyDoc]
               /\ raised' = "save_data"
    /\ pc' = AfterSave
    /\ UNCHANGED <<entry, countries, idx, period, country_data, all_data, driver,
                   navs, failed, excSeen, total_jobs, xin, xout, text, found_skills, onlyChallenges, session, closes>>

\* one scrape_jobs_by_period call on the probed fetch
Probe ==
    /\ pc = "probe"
    /\ xout' = [hc |-> handle_cloudflare(xin.page),
                count |-> extract_job_count(xin.page),
                value |-> scrape_jobs_by_period(country, xin).value]
    /\ pc' = "probed"
    /\ UNCHANGED <<entry, countries, idx, period, country_data, all_data, driver,
                   raised, file, navs, failed, excSeen, total_jobs, xin, text, found_skills, onlyChallenges, session, closes>>

\* one extract_skills_from_text call on the text
ExtractSkills ==
    /\ pc = "skills"
    /\ found_skills' = extract_skills_from_text(text)
    /\ pc' = "extracted"
    /\ UNCHANGED <<entry, countries, idx, period, country_data, all_data, driver,
                   raised, file, navs, failed, excSeen, total_jobs, xin, xout, text, onlyChallenges, session, closes>>

Next ==
    \/ Initialize
    \/ ScrapePeriod
    \/ ScrapeRemote
    \/ ScrapeTotal
    \/ ScrapeListings
    \/ StoreCountry
    \/ Close
    \/ SaveOpen
    \/ SaveDump

NextProbe == Probe

NextSkills == ExtractSkills

\* a run of main()
Spec == Init /\ [][Next]_vars

\* a run of the single-country harness
SpecCountry == InitCountry /\ [][Next]_vars

\* one count fetch on every page of the probe
SpecProbe == InitProbe /\ [][NextProbe]_vars

\* a run of either entry point: main(), or the single-country harness
InitEntries == Init \/ InitCountry

SpecEntries == InitEntries /\ [][Next]_vars

\* one skill extraction on every text
SpecSkills == InitSkills /\ [][NextSkills]_vars

-----------------------------------------------------------------------------
(* Properties *)

CountFields == {"last_24h", "last_7d", "last_30d", "remote", "on_site"}

CountryKeys == CountFields \cup {"country", "job_listings"}

ConfiguredSet == {Configured[i] : i \in 1..Len(Configured)}

MetricPcs == {"period", "remote", "total", "listings"}

Max2(a, b) == IF a >= b THEN a ELSE b

\* C1 as stated: the result scrape_country returns for a configured country
\* has last_24h, last_7d, last_30d, remote and on_site all integers >= 0,
\* whatever the pages did.
C1_AllCountsNonNegative ==
    (pc = "returned" /\ HasConfig(country)) =>
        \A f \in CountFields : country_data[f] \in Int /\ country_data[f] >= 0

\* C1 amended: the five counts of the returned result are integers >= -1,
\* -1 being the "can't find data" indicator.
C1_CountsAtLeastMinusOne ==
    pc = "returned" =>
        \A f \in CountFields : country_data[f] \in Int /\ country_data[f] >= -1

\* C1: a configured country returned with one window unavailable after an
\* exception and another one live
C1_Witness ==
    /\ pc = "returned" /\ HasConfig(country) /\ excSeen
    /\ country_data.last_24h = -1 /\ country_data.last_30d > 0

\* C2 as stated: when last_30d, remote and on_site are all live in one
\* returned result, remote + on_site = last_30d.
C2_RemotePlusOnSiteIsLast30d ==
    (/\ pc = "returned"
     /\ country_data.last_30d >= 0 /\ country_data.remote >= 0 /\ country_data.on_site >= 0)
    => country_data.remote + country_data.on_site = country_data.last_30d

\* C2 amended: when remote is live and the 30-day count fetched again inside
\* scrape_remote_vs_onsite (total_jobs) is live, on_site is max(0, total_jobs -
\* remote), so remote + on_site = max(remote, total_jobs); that is last_30d
\* when the second fetch gave the count of last_30d and remote <= last_30d.
C2_RemotePlusOnSiteIsMaxOfRemoteAndTotal ==
    (pc = "returned" /\ country_data.remote >= 0 /\ total_jobs >= 0) =>
        /\ country_data.on_site >= 0
        /\ country_data.remote + country_data.on_site = Max2(country_data.remote, total_jobs)
        /\ (total_jobs = country_data.last_30d /\ country_data.remote <= country_data.last_30d)
              => country_data.remote + country_data.on_site = country_data.last_30d

\* C2: all three live, the second fetch agreeing with last_30d, both parts positive
C2_Witness ==
    /\ pc = "returned"
    /\ country_data.remote > 0 /\ country_data.on_site > 0
    /\ total_jobs = country_data.last_30d
    /\ country_data.remote + country_data.on_site = country_data.last_30d

\* C3 as stated: once a metric of a country has ended as Challenged, NotFound
\* or an error, no further page navigation is issued for the remaining metrics
\* of that country.
C3_NoNavigationAfterFailure ==
    [][(failed /\ pc \in MetricPcs) => navs' = navs]_vars

\* C3 amended: a failed metric does not put the country in a fallback mode:
\* every metric operation on a configured country issues its page navigation,
\* whether or not an earlier metric of the country failed.
C3_EveryMetricNavigates ==
    [][(pc \in MetricPcs /\ HasConfig(country)) => navs' >= navs + 1]_vars

\* C3: the first window failed and the country still went through at least
\* five navigations
C3_Witness ==
    /\ pc = "returned" /\ HasConfig(country) /\ failed
    /\ country_data.last_24h = -1 /\ navs >= 5

C5_OneKeyPerConfiguredCountry ==
    (entry = "run_scraper" /\ all_data.last_updated = "stamped") =>
        /\ DOMAIN all_data.countries = ConfiguredSet
        /\ Cardinality(DOMAIN all_data.countries) = NumCountries
        /\ \A c \in DOMAIN all_data.countries : all_data.countries[c].country = c

\* C5: a returned document in which one country failed and another did not
C5_Witness ==
    /\ entry = "run_scraper" /\ all_data.last_updated = "stamped"
    /\ \E c1, c2 \in DOMAIN all_data.countries :
          /\ all_data.countries[c1].last_24h = -1 /\ all_data.countries[c1].last_30d = -1
          /\ all_data.countries[c2].last_24h > 0

\* the file holds the complete document of this run
FileComplete ==
    /\ file.status = "complete"
    /\ DOMAIN file.data.countries = ConfiguredSet

\* C6 as stated: every run of main ends with a complete document produced
\* and persisted, whatever failed, the opening of the browser included.
C6_EveryRunPersistsDocument ==
    (entry = "run_scraper" /\ pc = "done") => FileComplete

\* C6 amended: a run of main ends with the complete document persisted exactly
\* when the browser opens and save_data does not raise; failures inside a
\* country never end the run; when initialize raises, the run ends with the
\* error logged, no document built and the output file as it was.
C6_DocumentPersistedUnlessInitOrSaveFails ==
    (entry = "run_scraper" /\ pc = "done") =>
        /\ raised \in {"none", "initialize", "save_data"}
        /\ (raised = "none") <=> (FileComplete /\ file.data = all_data)
        /\ raised = "initialize" => (file = PreviousFile /\ all_data = EmptyDoc)

\* C6: a finished run that persisted a document in which a country failed
C6_Witness ==
    /\ entry = "run_scraper" /\ pc = "done" /\ FileComplete
    /\ \E c \in DOMAIN file.data.countries : file.data.countries[c].last_30d = -1

\* C7 as stated: for a country outside the configuration scrape_country does
\* not raise, navigates nowhere and returns all counts 0 and no listing.
C7_UnknownCountryZeroed ==
    (pc = "returned" /\ ~HasConfig(country)) =>
        /\ \A f \in CountFields : country_data[f] = 0
        /\ country_data.job_listings = <<>>
        /\ navs = 0

\* C7 amended: for a country outside the configuration scrape_country does
\* not raise, navigates nowhere and returns all counts -1 and no listing.
C7_UnknownCountryUnavailable ==
    ~HasConfig(country) =>
        /\ raised # "scrape_country"
        /\ navs = 0
        /\ pc = "returned" =>
              /\ \A f \in CountFields : country_data[f] = -1
              /\ country_data.job_listings = <<>>

\* C7: scrape_country returned for the unknown country
C7_Witness == pc = "returned" /\ country = UnknownCountry /\ driver = "open"

\* C8: a page whose title stays "Just a moment..." makes handle_cloudflare
\* report failure and the count metric -1, whatever its URL and content.
C8_PersistentInterstitialIsChallenged ==
    (pc = "probed" /\ xin.nav = "ok" /\ xin.page.jam = AlwaysJam) =>
        ~xout.hc /\ xout.count = 0 /\ xout.value = -1

\* C8: a probed page that stays on the interstitial while its URL and source
\* carry no marker and its source shows a count
C8_Witness ==
    /\ pc = "probed" /\ xin.nav = "ok" /\ xin.page.jam = AlwaysJam
    /\ ~xin.page.cf /\ ~xin.page.chal /\ xin.page.exc = "none"
    /\ xin.page.body = CountText(MaxCount)

\* no strategy of extract_job_count finds a count on the page, and nothing raises
NotFound(page) ==
    /\ handle_cloudflare(page) /\ page.exc = "none"
    /\ SelectorHits(page) = {} /\ ~TitleHit(page) /\ ~BodyHit(page)

\* C9: when extraction finds no count on the page, the metric is reported as
\* unavailable (-1), never as a live count of 0.
C9_NotFoundIsReportedUnavailable ==
    (pc = "probed" /\ xin.nav = "ok" /\ NotFound(xin.page)) => xout.value = -1

\* the one text of a clear page with one text
TextOf(page) ==
    IF Len(page.sel) > 0 THEN page.sel[1]
    ELSE IF page.title # <<>> THEN page.title ELSE page.body

\* the page is a clear page with one text
IsTextPage(page) == \E slot \in TextSlots : page = TextPage(slot, TextOf(page))

\* digits, one thousands separator, digits, then " jobs"
SeparatedCount(t) ==
    /\ Len(t) >= 5
    /\ t[Len(t) - 1] = " " /\ t[Len(t)] = "jobs"
    /\ \E k \in 2..(Len(t) - 3) :
          /\ t[k] = ","
          /\ \A i \in 1..(Len(t) - 2) : i # k => IsDigit(t[i])

\* C10: on a page showing a count with a thousands separator, every strategy
\* of extract_job_count returns the whole number, the separator stripped.
C10_SeparatedCountParsedWhole ==
    (pc = "probed" /\ xin.nav = "ok" /\ IsTextPage(xin.page) /\ SeparatedCount(TextOf(xin.page)))
    => xout.count = ParseInt(TextOf(xin.page), 1, Len(TextOf(xin.page)) - 1, 0)

\* C11: the result of extract_skills_from_text holds no entry twice, whatever
\* the text and whichever vocabulary or degree pattern matched.
C11_SkillsHaveNoDuplicates ==
    pc = "extracted" =>
        \A i, j \in 1..Len(found_skills) : found_skills[i] = found_skills[j] => i = j

\* round(n * ratio) for a ratio in hundredths, halves to the even neighbour
RoundRatio(n, ratio) ==
    LET q == (n * ratio) \div 100
        r == (n * ratio) % 100
    IN IF r > 50 \/ (r = 50 /\ q % 2 = 1) THEN q + 1 ELSE q

\* a listing with a title, a company, a location and a salary, none empty
FabricatedListing(l) ==
    /\ {"title", "company", "location", "salary"} \subseteq DOMAIN l
    /\ \A f \in {"title", "company", "location", "salary"} : l[f] # ""

\* C12 as stated: when every page fetched for a country is a challenge page,
\* the result has last_30d within avg_count +/- 30 (at least 10), remote =
\* round(last_30d * remote_ratio), on_site = last_30d - remote, and five
\* fabricated listings with title, company, location and salary.
C12_ChallengedCountryGetsFallbackValues ==
    (pc = "returned" /\ HasConfig(country) /\ onlyChallenges) =>
        LET avg == COUNTRY_CONFIGS[country].avg_count
            ratio == COUNTRY_CONFIGS[country].remote_ratio
        IN /\ country_data.last_30d >= Max2(10, avg - 30)
           /\ country_data.last_30d <= avg + 30
           /\ country_data.remote = RoundRatio(country_data.last_30d, ratio)
           /\ country_data.on_site = country_data.last_30d - country_data.remote
           /\ Len(country_data.job_listings) = 5
           /\ \A i \in 1..Len(country_data.job_listings) :
                 FabricatedListing(country_data.job_listings[i])

\* C12 amended: when every page fetched for a country is a challenge page,
\* the three windows, remote and on_site are all -1 and there is no listing:
\* nothing is fabricated; the five metric operations each fetched their page.
C12_ChallengedCountryIsAllUnavailable ==
    (pc = "returned" /\ onlyChallenges) =>
        /\ \A f \in CountFields : country_data[f] = -1
        /\ country_data.job_listings = <<>>
        /\ navs = 5

\* C12: a configured country returned after every one of its pages stayed a
\* challenge
C12_Witness ==
    /\ pc = "returned" /\ HasConfig(country) /\ onlyChallenges
    /\ driver = "open" /\ failed /\ ~excSeen

\* C13 as stated: the page text is scanned first: when the page source shows
\* a count, that count is returned whatever a selector element or the title
\* shows.
C13_PageTextDecidesFirst ==
    (pc = "probed" /\ xin.nav = "ok") =>
        \A s, t, b \in -1..MaxCount :
            (xin.page = OrderPage(s, t, b) /\ b >= 0) => xout.count = b

\* C13 amended: the strategies are tried in the order (1) structural
\* selectors, (2) page title, (3) regex scan of the page source, and the first
\* that matches decides, whatever a later one would give; 0 when none matches.
C13_SelectorThenTitleThenPageText ==
    (pc = "probed" /\ xin.nav = "ok") =>
        \A s, t, b \in -1..MaxCount :
            xin.page = OrderPage(s, t, b) =>
                xout.count = IF s >= 0 THEN s
                             ELSE IF t >= 0 THEN t
                             ELSE IF b >= 0 THEN b ELSE 0

\* C13: a probed page whose badge, title and source show three different counts
C13_Witness ==
    /\ pc = "probed" /\ xin.nav = "ok"
    /\ xin.page = OrderPage(1, 2, 0)
    /\ xout.count = 1

\* the count the one count badge of the page shows, 0 when it has none
BadgeShown(page) ==
    IF page.sel = <<>> THEN 0 ELSE FirstDigitRun(page.sel[1])

\* a page of FlagPages whose title never is the interstitial's, whose reads
\* do not raise, and whose count, if any, is on its badge
MarkedClearPage(page) ==
    /\ page \in FlagPages /\ page.jam = AlwaysClear /\ page.exc = "none"
    /\ page.title = <<>> /\ page.body = <<>>

\* C14 as stated: a page whose URL holds the challenge marker or whose source
\* holds the vendor marker is Challenged and never yields a live count, also
\* when its title is not the interstitial's and a count can be extracted.
C14_MarkedPageNeverYieldsLiveCount ==
    (pc = "probed" /\ xin.nav = "ok" /\ (xin.page.chal \/ xin.page.cf)) =>
        xout.value = -1

\* C14 amended: the markers do not classify by themselves.  The URL marker
\* makes the metric unavailable exactly when the extracted count is 0, so a
\* page with it never yields a live 0; the source marker only makes
\* handle_cloudflare wait.  A marked page whose title is not the
\* interstitial's passes handle_cloudflare, and when it shows a count above 0
\* the metric is that live count.
C14_MarkersClassifyOnlyZeroCounts ==
    (pc = "probed" /\ xin.nav = "ok") =>
        /\ xin.page.chal => xout.value # 0
        /\ (MarkedClearPage(xin.page) /\ (xin.page.chal \/ xin.page.cf)) =>
              /\ xout.hc
              /\ BadgeShown(xin.page) > 0 => xout.value = BadgeShown(xin.page)
              /\ (BadgeShown(xin.page) = 0 /\ xin.page.chal) => xout.value = -1
              /\ ~xin.page.chal => xout.value = BadgeShown(xin.page)

\* C14: a probed page with both markers, a clear title and a count on its badge
C14_Witness ==
    /\ pc = "probed" /\ xin.nav = "ok" /\ MarkedClearPage(xin.page)
    /\ xin.page.chal /\ xin.page.cf
    /\ xin.page.sel = <<CountText(MaxCount)>>
    /\ xout.value = MaxCount

\* scrape_remote_vs_onsite has returned
RemoteReturnedPcs == {"listings", "returned"}

\* C15 as stated: whenever scrape_remote_vs_onsite obtains a live remote
\* count, the on_site it returns is max(0, total - remote), never negative.
C15_OnSiteIsClampedDifference ==
    (pc \in RemoteReturnedPcs /\ country_data.remote >= 0) =>
        /\ country_data.on_site = Max2(0, total_jobs - country_data.remote)
        /\ country_data.on_site >= 0

\* C15 amended: with a live remote count, on_site is max(0, total - remote),
\* never negative, when the total of the nested 30-day fetch is live, and -1
\* when that total is unavailable.
C15_OnSiteClampedWhenTotalIsLive ==
    (pc \in RemoteReturnedPcs /\ country_data.remote >= 0) =>
        IF total_jobs >= 0
        THEN /\ country_data.on_site = Max2(0, total_jobs - country_data.remote)
             /\ country_data.on_site >= 0
        ELSE country_data.on_site = -1 /\ total_jobs = -1

\* C15: a live remote count above the live total: the difference is clamped
C15_Witness ==
    /\ pc = "returned" /\ total_jobs >= 0
    /\ country_data.remote > total_jobs /\ country_data.on_site = 0

\* C16: no failure state leaks across countries: the first metric of every
\* country of a run starts with no navigation made and no failure recorded
\* for that country, and fetches its page, whatever happened to the countries
\* before it.
C16_EveryCountryStartsLive ==
    [][(entry = "run_scraper" /\ pc = "period" /\ period = 1) =>
          /\ navs = 0 /\ ~failed
          /\ navs' = 1
          /\ session'.users = session.users \cup {country}]_vars

\* C16: the first country failed on every metric and the first window of the
\* second is live
C16_Witness ==
    /\ entry = "run_scraper" /\ idx = 2 /\ pc = "period" /\ period = 2
    /\ \A f \in CountFields : all_data.countries[Configured[1]][f] = -1
    /\ country_data.last_24h > 0

\* C17 as stated: the browsing session is per country: no session that
\* fetched pages for one country fetches pages for another.
C17_SessionIsPerCountry ==
    Cardinality(session.users) <= 1

\* C17 amended: the browsing session is per run: initialize starts one
\* browser before the first country, it stays open from country to country,
\* every page of every country is fetched with it, and the document
\* run_scraper returns was gathered with that one session.
C17_SessionIsPerRun ==
    /\ session.id \in {0, 1}
    /\ session.users \subseteq {countries[i] : i \in 1..idx}
    /\ (pc \in MetricPcs \cup {"returned"}) => (driver = "open" /\ session.id = 1)
    /\ (entry = "run_scraper" /\ all_data.last_updated = "stamped") =>
          session.users = ConfiguredSet

\* C17: run_scraper returned its document and every country used the session
C17_Witness ==
    /\ entry = "run_scraper" /\ all_data.last_updated = "stamped"
    /\ session.id = 1 /\ Cardinality(session.users) = NumCountries
    /\ driver = "quit"

\* C18: at every point of a run, an error or interruption during saving
\* included, the output file holds the previous complete document or the new
\* complete document with one entry per configured country.
C18_FileIsPreviousOrComplete ==
    entry = "run_scraper" => (file = PreviousFile \/ (FileComplete /\ file.data = all_data))

\* C19: whenever handle_cloudflare reports failure during a count metric, the
\* metric is -1, never 0, also when the title changes between that check and
\* the caller's re-check.
C19_ChallengeFailureIsUnavailable ==
    (pc = "probed" /\ xin.nav = "ok" /\ ~xout.hc) => xout.value = -1

\* C20: in every result of scrape_remote_vs_onsite on_site is available only
\* if remote is: remote = -1 implies on_site = -1, and a result with remote
\* live and on_site = -1 is the only mixed one.
C20_OnSiteOnlyWithRemote ==
    pc \in RemoteReturnedPcs =>
        /\ country_data.remote = -1 => country_data.on_site = -1
        /\ country_data.remote >= -1 /\ country_data.on_site >= -1
        /\ (country_data.remote = -1) # (country_data.on_site = -1) =>
              (country_data.remote >= 0 /\ total_jobs = -1)

\* C20: the remote fetch of a configured country failed after its 30-day
\* window had given a live count, and the result holds no on_site count
C20_Witness ==
    /\ pc = "returned" /\ HasConfig(country) /\ country_data.last_30d > 0
    /\ country_data.remote = -1 /\ country_data.on_site = -1

====
